---- MODULE Spec2Model ----
(***************************************************************************)
(* Model of stockholm2cigar.py: the CigarString run-length encoder, the    *)
(* hmmalign symbol classifier cigar_from_aligned_hmmalign, and the         *)
(* read_stockholm reader.                                                  *)
(*                                                                         *)
(* Python objects are modelled on a heap: a CigarString object holds its   *)
(* integer _len and references to two list objects (_symbol and            *)
(* _duplication), and the lists live in their own stores, so that copying  *)
(* and in-place mutation are distinguishable.                              *)
(***************************************************************************)
EXTENDS Integers, Sequences, FiniteSets, TLC

\* ---------------------------------------------------------------- bounds
MaxTotal == 5      \* sum of the lengths of the named encoders (Spec)
MaxConvLen == 3    \* length of an input converted inside Spec
MaxSeqLen == 4     \* length of an enumerated input of SpecConv
MaxFed == 6        \* cap of the fed counters (SpecLen)
MaxLines == 3      \* number of lines of an input stream (SpecRead)
MaxBody == 4       \* number of lines after the header (SpecBody)
MaxAlg == 3        \* length of each of the three operands (SpecAlg)
MaxRuns == 2       \* number of runs of the rendered encoder (SpecRender)
MaxRender == 11    \* length of the rendered encoder (SpecRender)
MaxSelf == 8       \* length of an encoder joined with itself (SpecSelf)

\* ------------------------------------------------------------ vocabulary
Names == {"a", "b"}            \* program variables holding CigarString objects
Tmp == "tmp"                   \* the anonymous object an expression evaluates to
Slots == Names \cup {Tmp}
Tags == {"M", "I", "S", "D"}
PoolTags == {"M", "I", "S"}   \* the tags the pool's client code appends

LowerCase == {"a","b","c","d","e","f","g","h","i","j","k","l","m",
              "n","o","p","q","r","s","t","u","v","w","x","y","z"}
UpperCase == {"A","B","C","D","E","F","G","H","I","J","K","L","M",
              "N","O","P","Q","R","S","T","U","V","W","X","Y","Z"}

islower(s) == s \in LowerCase
isupper(s) == s \in UpperCase

VARIABLES heap, fed, last,             \* the encoder objects and their history
          alnseq, pos, marginal, pc,   \* cigar_from_aligned_hmmalign
          stdin, rd, data, err, rpc, debug,  \* read_stockholm
          stdout, wr                   \* the main program's output

convVars == <<alnseq, pos, marginal, pc>>
mainVars == <<stdout, wr>>
readVars == <<stdin, rd, data, err, rpc, debug, mainVars>>
poolVars == <<heap, fed, last>>
vars == <<heap, fed, last, alnseq, pos, marginal, pc, stdin, rd, data, err, rpc, debug,
          stdout, wr>>

\* ------------------------------------------------------------ arithmetic
RECURSIVE SumSeq(_)
SumSeq(q) == IF q = <<>> THEN 0 ELSE Head(q) + SumSeq(Tail(q))

Digit(d) ==
    CASE d = 0 -> "0" [] d = 1 -> "1" [] d = 2 -> "2" [] d = 3 -> "3"
      [] d = 4 -> "4" [] d = 5 -> "5" [] d = 6 -> "6" [] d = 7 -> "7"
      [] d = 8 -> "8" [] d = 9 -> "9"

\* "{}".format(i) for a non-negative integer i
RECURSIVE FormatInt(_)
FormatInt(n) == IF n < 10 THEN Digit(n) ELSE FormatInt(n \div 10) \o Digit(n % 10)

\* ------------------------------------------------------------ CigarString
\* H is a heap: H.obj[x] is the object in slot x, H.sl and H.dl are the stores
\* of _symbol and _duplication list objects.
SymOf(H, x) == H.sl[H.obj[x].symbol]
DupOf(H, x) == H.dl[H.obj[x].duplication]
len(H, x) == H.obj[x].len

EmptyHeap ==
    [obj |-> [x \in Slots |-> [symbol |-> x, duplication |-> x, len |-> 0]],
     sl  |-> [x \in Slots |-> <<>>],
     dl  |-> [x \in Slots |-> <<>>]]

\* CigarString(): a new object with two new empty lists, placed in slot k
CigarString(H, k) ==
    [obj |-> [H.obj EXCEPT ![k] = [symbol |-> k, duplication |-> k, len |-> 0]],
     sl  |-> [H.sl EXCEPT ![k] = <<>>],
     dl  |-> [H.dl EXCEPT ![k] = <<>>]]

append_nocount(H, x, s) ==
    LET o == H.obj[x]
        syms == H.sl[o.symbol]
    IN  IF o.len = 0 \/ s # syms[Len(syms)]
        THEN [H EXCEPT !.sl[o.symbol] = Append(@, s),
                       !.dl[o.duplication] = Append(@, 1),
                       !.obj[x].len = @ + 1]
        ELSE [H EXCEPT !.dl[o.duplication] = [@ EXCEPT ![Len(@)] = @ + 1]]

append(H, x, s) ==
    LET o == H.obj[x]
        syms == H.sl[o.symbol]
        H1 == IF o.len = 0 \/ s # syms[Len(syms)]
              THEN [H EXCEPT !.sl[o.symbol] = Append(@, s),
                             !.dl[o.duplication] = Append(@, 1)]
              ELSE [H EXCEPT !.dl[o.duplication] = [@ EXCEPT ![Len(@)] = @ + 1]]
    IN  [H1 EXCEPT !.obj[x].len = @ + 1]

\* clear that keeps the cached length
clear_keeplen(H, x) ==
    LET o == H.obj[x]
    IN  [H EXCEPT !.dl[o.duplication] = <<>>,
                  !.sl[o.symbol] = <<>>]

clear(H, x) ==
    LET o == H.obj[x]
    IN  [H EXCEPT !.obj[x].len = 0,
                  !.dl[o.duplication] = <<>>,
                  !.sl[o.symbol] = <<>>]

\* copy.copy: a new object in slot k that refers to the lists of x
shallowcopy(H, x, k) ==
    IF k = x THEN H ELSE [H EXCEPT !.obj[k] = H.obj[x]]

\* copy.deepcopy: a new object in slot k with new lists holding x's contents
deepcopy(H, x, k) ==
    [obj |-> [H.obj EXCEPT ![k] = [symbol |-> k, duplication |-> k,
                                   len |-> H.obj[x].len]],
     sl  |-> [H.sl EXCEPT ![k] = SymOf(H, x)],
     dl  |-> [H.dl EXCEPT ![k] = DupOf(H, x)]]

\* join without the merge of equal boundary tags
join_nomerge(H, x, y) ==
    IF len(H, y) = 0 THEN [heap |-> H, ret |-> x, br |-> "noop"]
    ELSE IF len(H, x) = 0
    THEN [heap |-> deepcopy(H, y, Tmp), ret |-> Tmp, br |-> "copy"]
    ELSE LET H1 == [H EXCEPT !.obj[x].len = @ + len(H, y)]
             H2 == [H1 EXCEPT !.sl[H1.obj[x].symbol] = @ \o SymOf(H1, y)]
             H3 == [H2 EXCEPT !.dl[H2.obj[x].duplication] = @ \o DupOf(H2, y)]
         IN  [heap |-> H3, ret |-> x, br |-> "extend"]

\* join whose merge adds one instead of the other's first count
join_mergeone(H, x, y) ==
    IF len(H, y) = 0 THEN [heap |-> H, ret |-> x, br |-> "noop"]
    ELSE IF len(H, x) = 0
    THEN [heap |-> deepcopy(H, y, Tmp), ret |-> Tmp, br |-> "copy"]
    ELSE LET H1 == [H EXCEPT !.obj[x].len = @ + len(H, y)]
         IN  IF SymOf(H1, x)[Len(SymOf(H1, x))] = SymOf(H1, y)[1]
             THEN LET H2 == [H1 EXCEPT !.dl[H1.obj[x].duplication] =
                                 [@ EXCEPT ![Len(@)] = @ + 1]]
                      H3 == [H2 EXCEPT !.sl[H2.obj[x].symbol] =
                                 @ \o Tail(SymOf(H2, y))]
                      H4 == [H3 EXCEPT !.dl[H3.obj[x].duplication] =
                                 @ \o Tail(DupOf(H3, y))]
                  IN  [heap |-> H4, ret |-> x, br |-> "merge"]
             ELSE LET H2 == [H1 EXCEPT !.sl[H1.obj[x].symbol] = @ \o SymOf(H1, y)]
                      H3 == [H2 EXCEPT !.dl[H2.obj[x].duplication] = @ \o DupOf(H2, y)]
                  IN  [heap |-> H3, ret |-> x, br |-> "extend"]

\* join that returns an empty receiver as it is
join_emptyself(H, x, y) ==
    IF len(H, y) = 0 THEN [heap |-> H, ret |-> x, br |-> "noop"]
    ELSE IF len(H, x) = 0
    THEN [heap |-> H, ret |-> x, br |-> "copy"]
    ELSE LET H1 == [H EXCEPT !.obj[x].len = @ + len(H, y)]
         IN  IF SymOf(H1, x)[Len(SymOf(H1, x))] = SymOf(H1, y)[1]
             THEN LET H2 == [H1 EXCEPT !.dl[H1.obj[x].duplication] =
                                 [@ EXCEPT ![Len(@)] = @ + DupOf(H1, y)[1]]]
                      H3 == [H2 EXCEPT !.sl[H2.obj[x].symbol] =
                                 @ \o Tail(SymOf(H2, y))]
                      H4 == [H3 EXCEPT !.dl[H3.obj[x].duplication] =
                                 @ \o Tail(DupOf(H3, y))]
                  IN  [heap |-> H4, ret |-> x, br |-> "merge"]
             ELSE LET H2 == [H1 EXCEPT !.sl[H1.obj[x].symbol] = @ \o SymOf(H1, y)]
                      H3 == [H2 EXCEPT !.dl[H2.obj[x].duplication] = @ \o DupOf(H2, y)]
                  IN  [heap |-> H3, ret |-> x, br |-> "extend"]

\* x.join(y), statement by statement on the heap. Returns the heap after the
\* call, the slot of the returned object (x itself, or Tmp for the new object
\* the rebinding of the local name self produces) and the branch taken.
join(H, x, y) ==
    IF len(H, y) = 0 THEN [heap |-> H, ret |-> x, br |-> "noop"]
    ELSE IF len(H, x) = 0
    THEN [heap |-> deepcopy(H, y, Tmp), ret |-> Tmp, br |-> "copy"]
    ELSE LET H1 == [H EXCEPT !.obj[x].len = @ + len(H, y)]
         IN  IF SymOf(H1, x)[Len(SymOf(H1, x))] = SymOf(H1, y)[1]
             THEN LET H2 == [H1 EXCEPT !.dl[H1.obj[x].duplication] =
                                 [@ EXCEPT ![Len(@)] = @ + DupOf(H1, y)[1]]]
                      H3 == [H2 EXCEPT !.sl[H2.obj[x].symbol] =
                                 @ \o Tail(SymOf(H2, y))]
                      H4 == [H3 EXCEPT !.dl[H3.obj[x].duplication] =
                                 @ \o Tail(DupOf(H3, y))]
                  IN  [heap |-> H4, ret |-> x, br |-> "merge"]
             ELSE LET H2 == [H1 EXCEPT !.sl[H1.obj[x].symbol] = @ \o SymOf(H1, y)]
                      H3 == [H2 EXCEPT !.dl[H2.obj[x].duplication] = @ \o DupOf(H2, y)]
                  IN  [heap |-> H3, ret |-> x, br |-> "extend"]

\* __add__ with copy.copy in place of copy.deepcopy
add_shallow(H, x, y) ==
    LET R == join(shallowcopy(H, x, Tmp), Tmp, y)
    IN  [heap |-> R.heap, ret |-> Tmp, br |-> R.br]

\* x + y: deepcopy(x).join(y); the returned object is in Tmp either way
add(H, x, y) ==
    LET R == join(deepcopy(H, x, Tmp), Tmp, y)
    IN  [heap |-> R.heap, ret |-> Tmp, br |-> R.br]

\* rendering with the tag before the count
RECURSIVE Zip_tagfirst(_, _)
Zip_tagfirst(d, s) ==
    IF d = <<>> \/ s = <<>> THEN ""
    ELSE Head(s) \o FormatInt(Head(d)) \o Zip_tagfirst(Tail(d), Tail(s))

\* the code property: "".join("{}{}".format(i, s) for i, s in zip(...))
RECURSIVE Zip(_, _)
Zip(d, s) ==
    IF d = <<>> \/ s = <<>> THEN ""
    ELSE FormatInt(Head(d)) \o Head(s) \o Zip(Tail(d), Tail(s))

code(H, x) == Zip(DupOf(H, x), SymOf(H, x))

\* name k = <the object in Tmp>: k now names that object; Tmp is free again
Bind(H, k) ==
    LET o == H.obj[Tmp]
        ownS == o.symbol = Tmp
        ownD == o.duplication = Tmp
        H1 == [obj |-> [H.obj EXCEPT ![k] =
                          [symbol |-> IF ownS THEN k ELSE o.symbol,
                           duplication |-> IF ownD THEN k ELSE o.duplication,
                           len |-> o.len]],
               sl |-> IF ownS THEN [H.sl EXCEPT ![k] = H.sl[Tmp]] ELSE H.sl,
               dl |-> IF ownD THEN [H.dl EXCEPT ![k] = H.dl[Tmp]] ELSE H.dl]
    IN  CigarString(H1, Tmp)

\* ------------------------------------------- cigar_from_aligned_hmmalign
\* The local cs is the object in Tmp.

\* loop body in which a deletion does not end the margin
LoopBody_delmargin(H, s, m) ==
    IF islower(s) \/ s = "*"
    THEN [heap |-> append(H, Tmp, IF m THEN "S" ELSE "I"), marginal |-> m]
    ELSE IF isupper(s)
    THEN [heap |-> append(H, Tmp, "M"), marginal |-> FALSE]
    ELSE IF s = "-"
    THEN [heap |-> append(H, Tmp, "D"), marginal |-> m]
    ELSE [heap |-> H, marginal |-> m]

\* loop body in which an upper-case letter does not end the margin
LoopBody_uppermargin(H, s, m) ==
    IF islower(s) \/ s = "*"
    THEN [heap |-> append(H, Tmp, IF m THEN "S" ELSE "I"), marginal |-> m]
    ELSE IF isupper(s)
    THEN [heap |-> append(H, Tmp, "M"), marginal |-> m]
    ELSE IF s = "-"
    THEN [heap |-> append(H, Tmp, "D"), marginal |-> FALSE]
    ELSE [heap |-> H, marginal |-> m]

\* loop body in which an unrecognized character ends the margin
LoopBody_skipmargin(H, s, m) ==
    IF islower(s) \/ s = "*"
    THEN [heap |-> append(H, Tmp, IF m THEN "S" ELSE "I"), marginal |-> m]
    ELSE IF isupper(s)
    THEN [heap |-> append(H, Tmp, "M"), marginal |-> FALSE]
    ELSE IF s = "-"
    THEN [heap |-> append(H, Tmp, "D"), marginal |-> FALSE]
    ELSE [heap |-> H, marginal |-> FALSE]

\* one iteration of "for s in alnseq" with the current value m of marginal
LoopBody(H, s, m) ==
    IF islower(s) \/ s = "*"
    THEN [heap |-> append(H, Tmp, IF m THEN "S" ELSE "I"), marginal |-> m]
    ELSE IF isupper(s)
    THEN [heap |-> append(H, Tmp, "M"), marginal |-> FALSE]
    ELSE IF s = "-"
    THEN [heap |-> append(H, Tmp, "D"), marginal |-> FALSE]
    ELSE [heap |-> H, marginal |-> m]

\* post-pass that rewrites the first run instead of the last
PostPass_first(H) ==
    IF len(H, Tmp) # 0 /\ SymOf(H, Tmp)[Len(SymOf(H, Tmp))] = "I"
    THEN [H EXCEPT !.sl[H.obj[Tmp].symbol] = [@ EXCEPT ![1] = "S"]]
    ELSE H

\* post-pass left out
PostPass_none(H) == H

\* if len(cs) and cs._symbol[-1] == "I": cs._symbol[-1] = "S"
PostPass(H) ==
    IF len(H, Tmp) # 0 /\ SymOf(H, Tmp)[Len(SymOf(H, Tmp))] = "I"
    THEN [H EXCEPT !.sl[H.obj[Tmp].symbol] = [@ EXCEPT ![Len(@)] = "S"]]
    ELSE H

RECURSIVE ForLoop(_, _, _, _)
ForLoop(H, seq, p, m) ==
    IF p > Len(seq) THEN H
    ELSE LET R == LoopBody(H, seq[p], m)
         IN  ForLoop(R.heap, seq, p + 1, R.marginal)

\* the whole function; the returned object is in Tmp
cigar_from_aligned_hmmalign(H, seq) ==
    PostPass(ForLoop(CigarString(H, Tmp), seq, 1, TRUE))

\* ---------------------------------------------------------------- inputs
RECURSIVE SeqsUpTo(_, _)
SeqsUpTo(S, n) ==
    IF n = 0 THEN {<<>>}
    ELSE LET P == SeqsUpTo(S, n - 1)
         IN  P \cup {Append(q, e) : q \in {r \in P : Len(r) = n - 1}, e \in S}

PoolChars == {"A", "a"}
PoolInputs == SeqsUpTo(PoolChars, MaxConvLen)

ConvChars == {"A", "a", "*", "-", "."}
Example1 == <<"a","c","g","t","A","C","G","T","a","c","g","t">>
Example2 == <<"A","C","G","T","a","c","g","t","A","C","G","T">>
Example3 == <<"-","-","-","-">>
ConvInputs == SeqsUpTo(ConvChars, MaxSeqLen) \cup {Example1, Example2, Example3}

\* number of symbols of seq the loop appends a tag for
Classified(seq) ==
    Cardinality({p \in 1..Len(seq) :
                   islower(seq[p]) \/ seq[p] = "*" \/ isupper(seq[p]) \/ seq[p] = "-"})

\* ------------------------------------------------ Spec: the encoder pool
\* Straight-line client code over the variables in Names: appends, clears,
\* joins, sums and conversions in any order.
RECURSIVE SumLen(_, _)
SumLen(H, S) ==
    IF S = {} THEN 0
    ELSE LET x == CHOOSE x \in S : TRUE IN len(H, x) + SumLen(H, S \ {x})

Total(H) == SumLen(H, Names)

NoOp == [op |-> "none", self |-> "none", arg |-> "none", br |-> "none"]

Idle ==
    /\ alnseq = <<>>
    /\ pos = 0
    /\ marginal = TRUE
    /\ pc = "idle"

ReaderIdle ==
    /\ stdin = <<>>
    /\ rd = 0
    /\ data = <<>>
    /\ err = "none"
    /\ rpc = "idle"
    /\ debug = TRUE
    /\ stdout = <<>>
    /\ wr = 0

Init ==
    /\ heap = EmptyHeap
    /\ fed = [x \in Names |-> 0]
    /\ last = NoOp
    /\ Idle
    /\ ReaderIdle

\* x.append(s)
AppendOp(x, s) ==
    /\ pc = "idle"
    /\ heap' = append(heap, x, s)
    /\ Total(heap') <= MaxTotal
    /\ last' = [op |-> "append", self |-> x, arg |-> "none", br |-> s]
    /\ UNCHANGED <<convVars, readVars>>

\* x.clear()
ClearOp(x) ==
    /\ pc = "idle"
    /\ heap' = clear(heap, x)
    /\ last' = [op |-> "clear", self |-> x, arg |-> "none", br |-> "none"]
    /\ UNCHANGED <<convVars, readVars>>

\* k = x.join(y) for two different objects x and y. When join returns the
\* receiver itself the assignment is left out (k would alias x); when it
\* returns a new object, k names it from now on.
JoinOp(x, y, k) ==
    /\ pc = "idle"
    /\ x # y
    /\ LET R == join(heap, x, y)
       IN  /\ heap' = IF R.ret = Tmp THEN Bind(R.heap, k) ELSE R.heap
           /\ last' = [op |-> "join", self |-> x, arg |-> y, br |-> R.br]
    /\ Total(heap') <= MaxTotal
    /\ UNCHANGED <<convVars, readVars>>

\* k = x + y
AddOp(x, y, k) ==
    /\ pc = "idle"
    /\ LET R == add(heap, x, y)
       IN  /\ heap' = Bind(R.heap, k)
           /\ last' = [op |-> "add", self |-> x, arg |-> y, br |-> R.br]
    /\ Total(heap') <= MaxTotal
    /\ UNCHANGED <<convVars, readVars>>

\* k = cigar_from_aligned_hmmalign(seq)
ConvertOp(k, seq) ==
    /\ pc = "idle"
    /\ heap' = Bind(cigar_from_aligned_hmmalign(heap, seq), k)
    /\ Total(heap') <= MaxTotal
    /\ last' = [op |-> "convert", self |-> k, arg |-> "none", br |-> "none"]
    /\ UNCHANGED <<convVars, readVars>>

Next ==
    \/ \E x \in Names, s \in PoolTags : AppendOp(x, s) /\ UNCHANGED fed
    \/ \E x \in Names : ClearOp(x) /\ UNCHANGED fed
    \/ \E x \in Names, y \in Names, k \in Names : JoinOp(x, y, k) /\ UNCHANGED fed
    \/ \E x \in Names, y \in Names, k \in Names : AddOp(x, y, k) /\ UNCHANGED fed
    \/ \E k \in Names, seq \in PoolInputs : ConvertOp(k, seq) /\ UNCHANGED fed

Spec == Init /\ [][Next]_vars

\* ------------------- SpecLen: appends and joins, with the symbols counted
\* fed[x] counts what has been put into the object named x: one per appended
\* tag plus the length of every encoder joined onto it. A new object produced
\* by join's deepcopy starts with the count of the object it copies.
AppendLen(x, s) ==
    /\ AppendOp(x, s)
    /\ fed' = [fed EXCEPT ![x] = @ + 1]

JoinLen(x, y, k) ==
    /\ JoinOp(x, y, k)
    /\ fed[x] + len(heap, y) <= MaxFed
    /\ fed' = IF join(heap, x, y).ret = Tmp
              THEN [[fed EXCEPT ![x] = @ + len(heap, y)] EXCEPT ![k] = fed[y]]
              ELSE [fed EXCEPT ![x] = @ + len(heap, y)]

NextLen ==
    \/ \E x \in Names, s \in PoolTags : AppendLen(x, s)
    \/ \E x \in Names, y \in Names, k \in Names : JoinLen(x, y, k)

SpecLen == Init /\ [][NextLen]_vars

\* ------------------------------ SpecConv: one conversion, step by step
InitConv ==
    /\ heap = EmptyHeap
    /\ fed = [x \in Names |-> 0]
    /\ last = NoOp
    /\ alnseq \in ConvInputs
    /\ pos = 0
    /\ marginal = TRUE
    /\ pc = "start"
    /\ ReaderIdle

\* cs = CigarString(); marginal = True
ConvStart ==
    /\ pc = "start"
    /\ heap' = CigarString(heap, Tmp)
    /\ marginal' = TRUE
    /\ pos' = 1
    /\ pc' = "loop"
    /\ last' = [NoOp EXCEPT !.op = "start"]
    /\ UNCHANGED <<fed, alnseq, readVars>>

\* one iteration of the for loop
ConvStep ==
    /\ pc = "loop"
    /\ pos <= Len(alnseq)
    /\ LET R == LoopBody(heap, alnseq[pos], marginal)
       IN  /\ heap' = R.heap
           /\ marginal' = R.marginal
    /\ pos' = pos + 1
    /\ last' = [NoOp EXCEPT !.op = "step"]
    /\ UNCHANGED <<fed, alnseq, pc, readVars>>

\* the loop is exhausted: post-pass and return cs
ConvReturn ==
    /\ pc = "loop"
    /\ pos > Len(alnseq)
    /\ heap' = PostPass(heap)
    /\ pc' = "done"
    /\ last' = [NoOp EXCEPT !.op = "return"]
    /\ UNCHANGED <<fed, alnseq, pos, marginal, readVars>>

NextConv == ConvStart \/ ConvStep \/ ConvReturn

SpecConv == InitConv /\ [][NextConv]_vars

\* ------------------------------------------ SpecRead: read_stockholm
\* A line is a sequence of characters, with its "\n" when it has one; stdin
\* is the sequence of the lines of the input and rd the number of lines read.
Whitespace == {" ", "\t", "\n", "\r"}

\* str.rstrip(chars)
RECURSIVE rstrip(_, _)
rstrip(l, W) ==
    IF l # <<>> /\ l[Len(l)] \in W THEN rstrip(SubSeq(l, 1, Len(l) - 1), W) ELSE l

\* str.split(): the maximal runs of non-whitespace characters, in order
RECURSIVE SplitFrom(_, _, _)
SplitFrom(l, i, cur) ==
    IF i > Len(l) THEN (IF cur = <<>> THEN <<>> ELSE <<cur>>)
    ELSE IF l[i] \in Whitespace
    THEN (IF cur = <<>> THEN <<>> ELSE <<cur>>) \o SplitFrom(l, i + 1, <<>>)
    ELSE SplitFrom(l, i + 1, Append(cur, l[i]))

\* line.split(maxsplit=2)[:2]: the first two fields
split2(l) ==
    LET f == SplitFrom(l, 1, <<>>)
    IN  IF Len(f) <= 2 THEN f ELSE SubSeq(f, 1, 2)

startswith(l, c) == l # <<>> /\ l[1] = c

HeaderLine == <<"#"," ","S","T","O","C","K","H","O","L","M"," ","1",".","0">>
EndLine == <<"/", "/">>

\* infile.readline(): the next line, or the empty string at end of file
readline == IF rd < Len(stdin) THEN stdin[rd + 1] ELSE <<>>

\* the OrderedDict data as a sequence of [ident, seq] items in insertion order
HasKey(d, ident) == \E i \in 1..Len(d) : d[i].ident = ident

\* Store that assigns the new symbols instead of extending the old ones
Store_replace(d, ident, seq) ==
    IF HasKey(d, ident)
    THEN [i \in 1..Len(d) |->
             IF d[i].ident = ident THEN [d[i] EXCEPT !.seq = seq] ELSE d[i]]
    ELSE Append(d, [ident |-> ident, seq |-> seq])

\* data[ident].extend(seq), or data[ident] = list(seq) on KeyError
Store(d, ident, seq) ==
    IF HasKey(d, ident)
    THEN [i \in 1..Len(d) |->
             IF d[i].ident = ident THEN [d[i] EXCEPT !.seq = @ \o seq] ELSE d[i]]
    ELSE Append(d, [ident |-> ident, seq |-> seq])

ErrAssert == "AssertionError: File does not comply with the Stockholm format specs."
ErrEmpty == "IOError: Input is empty."
ErrNoEnd == "IOError: End of alignment could not be found."
ErrUnpack == "ValueError: not enough values to unpack"

NL == <<"\n">>
InputLines ==
    { HeaderLine \o NL,
      NL,
      EndLine \o NL,
      <<"#", "=", "G", "F">> \o NL,
      <<"s", "1", " ", "A", "a">> \o NL,
      <<"s", "2", " ", "-", "A", " ">> \o NL,
      <<"s", "1">> \o NL }

InitRead ==
    /\ heap = EmptyHeap
    /\ fed = [x \in Names |-> 0]
    /\ last = NoOp
    /\ Idle
    /\ stdin \in SeqsUpTo(InputLines, MaxLines)
    /\ rd = 0
    /\ data = <<>>
    /\ err = "none"
    /\ rpc = "header"
    /\ debug \in BOOLEAN     \* __debug__: FALSE when python runs with -O
    /\ stdout = <<>>
    /\ wr = 0

\* lines 21-27: read the first line and assert it is the header. readline
\* returns "" at end of file and raises nothing, so the StopIteration handler
\* is never entered; the assert statement is compiled only when __debug__.
ReadHeader ==
    /\ rpc = "header"
    /\ LET line == rstrip(readline, {"\n"})
       IN  IF debug /\ line # HeaderLine
           THEN /\ err' = ErrAssert
                /\ rpc' = "raised"
           ELSE /\ err' = err
                /\ rpc' = "loop"
    /\ rd' = IF rd < Len(stdin) THEN rd + 1 ELSE rd
    /\ data' = <<>>
    /\ UNCHANGED <<poolVars, convVars, stdin, debug, mainVars>>

\* lines 29-43: one iteration of "for line in infile"
ReadLine ==
    /\ rpc = "loop"
    /\ rd < Len(stdin)
    /\ rd' = rd + 1
    /\ LET line == rstrip(stdin[rd + 1], Whitespace)
       IN  IF line = <<>>
           THEN UNCHANGED <<data, err, rpc>>
           ELSE IF line = EndLine
           THEN /\ rpc' = "returned"
                /\ UNCHANGED <<data, err>>
           ELSE IF ~startswith(line, "#")
           THEN LET f == split2(line)
                IN  IF Len(f) < 2
                    THEN /\ err' = ErrUnpack
                         /\ rpc' = "raised"
                         /\ data' = data
                    ELSE /\ data' = Store(data, f[1], f[2])
                         /\ UNCHANGED <<err, rpc>>
           ELSE UNCHANGED <<data, err, rpc>>
    /\ UNCHANGED <<poolVars, convVars, stdin, debug, mainVars>>

\* line 45: the lines are exhausted without a terminator
ReadEof ==
    /\ rpc = "loop"
    /\ rd >= Len(stdin)
    /\ err' = ErrNoEnd
    /\ rpc' = "raised"
    /\ UNCHANGED <<poolVars, convVars, stdin, rd, data, debug, mainVars>>

NextRead == ReadHeader \/ ReadLine \/ ReadEof

SpecRead == InitRead /\ [][NextRead]_vars

\* ------------------------- SpecAlg: sums of three encoders, both ways
\* The client builds the encoders a, b and c and then evaluates
\*     ab = a + b;  l = ab + c;  bc = b + c;  r = a + bc
AlgNames == {"a", "b", "c"}
AlgSlots == AlgNames \cup {"ab", "bc", "l", "r", Tmp}
AlgTags == {"M", "I"}

AlgHeap ==
    [obj |-> [x \in AlgSlots |-> [symbol |-> x, duplication |-> x, len |-> 0]],
     sl  |-> [x \in AlgSlots |-> <<>>],
     dl  |-> [x \in AlgSlots |-> <<>>]]

InitAlg ==
    /\ heap = AlgHeap
    /\ fed = [x \in Names |-> 0]
    /\ last = NoOp
    /\ alnseq = <<>>
    /\ pos = 0
    /\ marginal = TRUE
    /\ pc = "build"
    /\ ReaderIdle

\* x.append(s)
AlgAppend(x, s) ==
    /\ pc = "build"
    /\ len(heap, x) < MaxAlg
    /\ heap' = append(heap, x, s)
    /\ last' = [op |-> "append", self |-> x, arg |-> "none", br |-> s]
    /\ UNCHANGED <<alnseq, pos, marginal, pc, readVars>>

\* x.join(y), the returned object dropped
AlgJoin(x, y) ==
    /\ pc = "build"
    /\ x # y
    /\ len(heap, x) + len(heap, y) <= MaxAlg
    /\ LET R == join(heap, x, y)
       IN  /\ heap' = CigarString(R.heap, Tmp)
           /\ last' = [op |-> "join", self |-> x, arg |-> y, br |-> R.br]
    /\ UNCHANGED <<alnseq, pos, marginal, pc, readVars>>

\* k = x + y
AlgAdd(from, x, y, k, to) ==
    /\ pc = from
    /\ LET R == add(heap, x, y)
       IN  /\ heap' = Bind(R.heap, k)
           /\ last' = [op |-> "add", self |-> x, arg |-> y, br |-> R.br]
    /\ pc' = to
    /\ UNCHANGED <<alnseq, pos, marginal, readVars>>

NextAlg ==
    \/ \E x \in AlgNames, s \in AlgTags : AlgAppend(x, s) /\ UNCHANGED fed
    \/ \E x \in AlgNames, y \in AlgNames : AlgJoin(x, y) /\ UNCHANGED fed
    \/ AlgAdd("build", "a", "b", "ab", "ab") /\ UNCHANGED fed
    \/ AlgAdd("ab", "ab", "c", "l", "l") /\ UNCHANGED fed
    \/ AlgAdd("l", "b", "c", "bc", "bc") /\ UNCHANGED fed
    \/ AlgAdd("bc", "a", "bc", "r", "done") /\ UNCHANGED fed

SpecAlg == InitAlg /\ [][NextAlg]_vars

\* ------------------------------ SpecRender: an encoder printed twice
\* The client builds the encoder a and prints repr(a) two times.
InitRender ==
    /\ heap = EmptyHeap
    /\ fed = [x \in Names |-> 0]
    /\ last = NoOp
    /\ alnseq = <<>>
    /\ pos = 0
    /\ marginal = TRUE
    /\ pc = "build"
    /\ ReaderIdle

\* a.append(s)
RenderAppend(s) ==
    /\ pc = "build"
    /\ heap' = append(heap, "a", s)
    /\ Len(SymOf(heap', "a")) <= MaxRuns
    /\ len(heap', "a") <= MaxRender
    /\ last' = [op |-> "append", self |-> "a", arg |-> "none", br |-> s]
    /\ UNCHANGED <<convVars, readVars>>

\* print(repr(a)): __repr__ returns self.code
RenderRepr ==
    /\ pc \in {"build", "once"}
    /\ stdout' = Append(stdout, code(heap, "a"))
    /\ pc' = IF pc = "build" THEN "once" ELSE "twice"
    /\ last' = [op |-> "repr", self |-> "a", arg |-> "none", br |-> "none"]
    /\ UNCHANGED <<heap, alnseq, pos, marginal, stdin, rd, data, err, rpc, debug, wr>>

NextRender ==
    \/ \E s \in Tags : RenderAppend(s) /\ UNCHANGED fed
    \/ RenderRepr /\ UNCHANGED fed

SpecRender == InitRender /\ [][NextRender]_vars

\* ------------------------------- SpecSelf: an encoder joined with itself
\* x.join(x): self and other are the same object
SelfJoinOp(x) ==
    /\ pc = "idle"
    /\ LET R == join(heap, x, x)
       IN  /\ heap' = CigarString(R.heap, Tmp)
           /\ last' = [op |-> "join", self |-> x, arg |-> x, br |-> R.br]
    /\ len(heap', x) <= MaxSelf
    /\ UNCHANGED <<convVars, readVars>>

NextSelf ==
    \/ \E x \in Names, s \in PoolTags : AppendOp(x, s) /\ UNCHANGED fed
    \/ \E x \in Names : SelfJoinOp(x) /\ UNCHANGED fed

SpecSelf == Init /\ [][NextSelf]_vars

\* ------------------- SpecBody: read_stockholm on inputs with the header
\* The first line is the header; the lines after it are drawn from BodyLines.
BodyLines ==
    { NL,
      EndLine \o NL,
      <<"#", "=", "G", "F">> \o NL,
      <<"s", "1", " ", "A", "a">> \o NL,
      <<"s", "1", " ", "-">> \o NL,
      <<"s", "2", " ", "-", "A", " ">> \o NL,
      <<"s", "1">> \o NL }

InitBody ==
    /\ heap = EmptyHeap
    /\ fed = [x \in Names |-> 0]
    /\ last = NoOp
    /\ Idle
    /\ stdin \in {<<HeaderLine \o NL>> \o b : b \in SeqsUpTo(BodyLines, MaxBody)}
    /\ rd = 0
    /\ data = <<>>
    /\ err = "none"
    /\ rpc = "header"
    /\ debug \in BOOLEAN
    /\ stdout = <<>>
    /\ wr = 0

SpecBody == InitBody /\ [][NextRead]_vars

\* ------------------------------------------ SpecMain: the main program
\* data = read_stockholm(stdin), then one output line per item of data. An
\* exception of the reader is not caught: rpc = "raised" is the abnormal end
\* of the program, rpc = "exit" its normal end.

\* the characters of a field as one string
RECURSIVE StrOf(_)
StrOf(l) == IF l = <<>> THEN "" ELSE Head(l) \o StrOf(Tail(l))

\* "{}\t{}\n".format(name, cigar_from_aligned_hmmalign(seq))
OutputLine(name, seq) ==
    StrOf(name) \o "\t" \o code(cigar_from_aligned_hmmalign(EmptyHeap, seq), Tmp) \o "\n"

\* one iteration of "for name, seq in data.items()"
MainWrite ==
    /\ rpc = "returned"
    /\ wr < Len(data)
    /\ stdout' = Append(stdout, OutputLine(data[wr + 1].ident, data[wr + 1].seq))
    /\ wr' = wr + 1
    /\ UNCHANGED <<poolVars, convVars, stdin, rd, data, err, rpc, debug>>

\* the items are exhausted: the program ends
MainExit ==
    /\ rpc = "returned"
    /\ wr >= Len(data)
    /\ rpc' = "exit"
    /\ UNCHANGED <<poolVars, convVars, stdin, rd, data, err, debug, mainVars>>

NextMain == ReadHeader \/ ReadLine \/ ReadEof \/ MainWrite \/ MainExit

SpecMain == InitRead /\ [][NextMain]_vars

\* ------------------------------------------------------------ properties
\* the runs of the encoder named x, as seen by a client
View(H, x) == <<SymOf(H, x), DupOf(H, x), len(H, x)>>

\* the tag sequence a run list stands for
RECURSIVE Expand(_, _)
Expand(d, s) ==
    IF d = <<>> \/ s = <<>> THEN <<>>
    ELSE [i \in 1..Head(d) |-> Head(s)] \o Expand(Tail(d), Tail(s))

ExpandOf(H, x) == Expand(DupOf(H, x), SymOf(H, x))

NoAdjacent(s) == \A i \in 1..(Len(s) - 1) : s[i] # s[i + 1]

\* C1: no descriptor held by the client, whether it was returned by the
\* conversion (post-pass included), built by appends, joined in place or
\* returned by a sum, has two consecutive runs with the same tag.
C1_NoAdjacentDuplicates ==
    \A x \in Names : NoAdjacent(SymOf(heap, x))

\* a join has just merged its boundary runs into a receiver of three or more
\* runs
C1_Witness ==
    /\ last.op = "join"
    /\ last.br = "merge"
    /\ Len(SymOf(heap, last.self)) >= 3
    /\ len(heap, last.self) >= 4

\* C2: the cached length of every encoder equals the sum of its run counts
\* and equals the number of tags appended to it plus the lengths of the
\* encoders concatenated onto it.
C2_LengthInvariant ==
    \A x \in Names :
        /\ len(heap, x) = SumSeq(DupOf(heap, x))
        /\ len(heap, x) = fed[x]

\* C3: after x.join(y) the receiver x itself renders as x + y did before the
\* call and its length is the sum of the two lengths (k # x: the name x still
\* refers to the receiver after the step).
C3_ConcatenateMutatesReceiver ==
    [][\A x \in Names, y \in Names, k \in Names :
          (JoinOp(x, y, k) /\ k # x) =>
              /\ code(heap', x) = code(add(heap, x, y).heap, Tmp)
              /\ len(heap', x) = len(heap, x) + len(heap, y)]_vars

NoSharedLists(H) ==
    \A n \in Names, m \in Names :
        n # m => /\ H.obj[n].symbol # H.obj[m].symbol
                 /\ H.obj[n].duplication # H.obj[m].duplication

Frame(x) == \A n \in Names \ {x} : View(heap', n) = View(heap, n)

Letters == LowerCase \cup UpperCase

\* C6: the conversion starts with marginal true and takes the symbols left to
\* right; a lower-case letter or '*' appends S when marginal and I otherwise
\* and keeps marginal; an upper-case letter appends M, '-' appends D, and both
\* set marginal to false; a classified symbol appends exactly one tag.
C6_ClassificationRule ==
    [][/\ ConvStart => (marginal' /\ pos' = 1 /\ ExpandOf(heap', Tmp) = <<>>)
       /\ ConvStep =>
             LET s == alnseq[pos]
                 before == ExpandOf(heap, Tmp)
                 after == ExpandOf(heap', Tmp)
             IN  /\ pos' = pos + 1
                 /\ (s \in LowerCase \/ s = "*") =>
                        /\ after = Append(before, IF marginal THEN "S" ELSE "I")
                        /\ marginal' = marginal
                 /\ s \in UpperCase =>
                        /\ after = Append(before, "M")
                        /\ marginal' = FALSE
                 /\ s = "-" =>
                        /\ after = Append(before, "D")
                        /\ marginal' = FALSE
                 /\ (s \in Letters \cup {"*", "-"}) =>
                        /\ len(heap', Tmp) = len(heap, Tmp) + 1
                        /\ Len(after) = Len(before) + 1]_vars

\* an insertion-like symbol has just been classified as Insertion after the
\* margin ended on a deletion
C6_Witness ==
    /\ pc = "loop"
    /\ last.op = "step"
    /\ pos = 3
    /\ alnseq[1] = "-"
    /\ alnseq[2] \in {"a", "*"}
    /\ ~marginal
    /\ SymOf(heap, Tmp) = <<"D", "I">>

\* C7: when the symbols are exhausted, a non-empty encoder whose last run is
\* Insertion gets exactly that run's tag rewritten to SoftClip, its count, all
\* other runs and the length staying as they are; otherwise nothing changes.
C7_TrailingPostPass ==
    [][ConvReturn =>
          LET s == SymOf(heap, Tmp)
          IN  IF s # <<>> /\ s[Len(s)] = "I"
              THEN /\ SymOf(heap', Tmp) = SubSeq(s, 1, Len(s) - 1) \o <<"S">>
                   /\ DupOf(heap', Tmp) = DupOf(heap, Tmp)
                   /\ len(heap', Tmp) = len(heap, Tmp)
              ELSE View(heap', Tmp) = View(heap, Tmp)]_vars

\* a conversion has returned whose trailing run was an Insertion (the margin
\* had ended) and is now a SoftClip, after a leading SoftClip and a middle run
C7_Witness ==
    /\ pc = "done"
    /\ ~marginal
    /\ Len(SymOf(heap, Tmp)) >= 3
    /\ SymOf(heap, Tmp)[1] = "S"
    /\ SymOf(heap, Tmp)[Len(SymOf(heap, Tmp))] = "S"
    /\ DupOf(heap, Tmp)[Len(DupOf(heap, Tmp))] >= 2

\* C8 as stated: "acgtACGTacgt" converts to 3S4M3S.
C8_BoundaryExampleAsStated ==
    (pc = "done" /\ alnseq = Example1) => code(heap, Tmp) = "3S4M3S"

\* C8 amended: "acgtACGTacgt" converts to 4S4M4S (four leading and four
\* trailing insertion-like symbols become soft clips of count four).
C8_BoundaryExample ==
    (pc = "done" /\ alnseq = Example1) => code(heap, Tmp) = "4S4M4S"

\* the conversion of "acgtACGTacgt" has returned, all twelve symbols encoded
C8_Witness ==
    /\ pc = "done"
    /\ alnseq = Example1
    /\ len(heap, Tmp) = 12

\* C9: the length of the returned descriptor, which is the sum of its counts,
\* is the input length minus the number of characters that are neither
\* letters nor '*' nor '-'; the empty input gives the empty descriptor.
C9_LengthConservation ==
    pc = "done" =>
        LET unrecognized == {p \in 1..Len(alnseq) :
                               alnseq[p] \notin Letters \cup {"*", "-"}}
        IN  /\ len(heap, Tmp) = Len(alnseq) - Cardinality(unrecognized)
            /\ SumSeq(DupOf(heap, Tmp)) = Len(alnseq) - Cardinality(unrecognized)
            /\ alnseq = <<>> => View(heap, Tmp) = <<<<>>, <<>>, 0>>

\* a conversion has returned for an input with an unrecognized character
\* between two symbols of the same run
C9_Witness ==
    /\ pc = "done"
    /\ Len(alnseq) = 4
    /\ alnseq[2] = "."
    /\ alnseq[1] = "A" /\ alnseq[3] = "A"
    /\ len(heap, Tmp) = 3

\* C10: when the input stream has no content at all, read_stockholm ends by
\* raising the empty-input error, IOError "Input is empty.".
C10_EmptyInputError ==
    (stdin = <<>> /\ rpc \in {"raised", "returned"}) => err = ErrEmpty

\* the input breaks the reader's contract: it is empty, its first line is not
\* the header, or no line after the first is the terminator
HasHeader(s) == s # <<>> /\ rstrip(s[1], {"\n"}) = HeaderLine
HasTerminator(s) == \E i \in 2..Len(s) : rstrip(s[i], Whitespace) = EndLine
ContractViolated(s) == s = <<>> \/ ~HasHeader(s) \/ ~HasTerminator(s)

\* C11: for an input that breaks the reader's contract the program never
\* ends normally and never writes an output line; in every run an output
\* line is written only once the reader has returned the map.
C11_NoPartialOutput ==
    /\ ContractViolated(stdin) => (stdout = <<>> /\ rpc # "exit")
    /\ stdout # <<>> => rpc \in {"returned", "exit"}

\* the input as the reader's contract describes it
Stripped(s, i) == rstrip(s[i], Whitespace)
FirstTerminator(s) ==
    CHOOSE i \in 2..Len(s) :
        /\ Stripped(s, i) = EndLine
        /\ \A j \in 2..(i - 1) : Stripped(s, j) # EndLine
IsDataLine(s, i) == Stripped(s, i) # <<>> /\ Stripped(s, i)[1] # "#"
DataLines(s) == {i \in 2..(FirstTerminator(s) - 1) : IsDataLine(s, i)}
Fields(s, i) == SplitFrom(Stripped(s, i), 1, <<>>)
WellFormed(s) == \A i \in DataLines(s) : Len(Fields(s, i)) >= 2

\* the symbols of the data lines from line i on that bear ident, in file order
RECURSIVE SymbolsOf(_, _, _)
SymbolsOf(s, i, ident) ==
    IF i >= FirstTerminator(s) THEN <<>>
    ELSE (IF i \in DataLines(s) /\ Fields(s, i)[1] = ident
          THEN Fields(s, i)[2] ELSE <<>>) \o SymbolsOf(s, i + 1, ident)

FirstLineOf(s, ident) ==
    CHOOSE i \in DataLines(s) :
        /\ Fields(s, i)[1] = ident
        /\ \A j \in DataLines(s) : Fields(s, j)[1] = ident => i <= j

MapContract(s, d) ==
    /\ {d[k].ident : k \in 1..Len(d)} = {Fields(s, i)[1] : i \in DataLines(s)}
    /\ \A k \in 1..Len(d), l \in 1..Len(d) :
          k < l => FirstLineOf(s, d[k].ident) < FirstLineOf(s, d[l].ident)
    /\ \A k \in 1..Len(d) : d[k].seq = SymbolsOf(s, 2, d[k].ident)

Ended == rpc \in {"returned", "raised"}

\* C12 as stated: for every stream with the header and a terminator the
\* reader returns the map described.
C12_ReaderMapAsStated ==
    (Ended /\ HasHeader(stdin) /\ HasTerminator(stdin)) =>
        /\ rpc = "returned"
        /\ MapContract(stdin, data)

\* C12 amended: for a stream with the header and a terminator whose data
\* lines before the terminator all have at least two fields, the reader
\* returns at the terminator a map whose identifiers are in first-occurrence
\* order, each with the concatenation in file order of the second fields of
\* its lines; blank lines, '#' lines and lines after the terminator add
\* nothing.
C12_ReaderMap ==
    (Ended /\ HasHeader(stdin) /\ HasTerminator(stdin) /\ WellFormed(stdin)) =>
        /\ rpc = "returned"
        /\ rd = FirstTerminator(stdin)
        /\ MapContract(stdin, data)

\* the reader has returned a map reassembled from interleaved lines
C12_Witness ==
    /\ rpc = "returned"
    /\ Len(data) = 2
    /\ data[1] = [ident |-> <<"s", "1">>, seq |-> <<"A", "a", "-">>]
    /\ data[2] = [ident |-> <<"s", "2">>, seq |-> <<"-", "A">>]

\* C13: for any three encoders a, b and c, (a + b) + c and a + (b + c)
\* render to the same text.
C13_Associativity ==
    pc = "done" => code(heap, "l") = code(heap, "r")

\* both sums are there, and b is a single run that merged with a's last run
\* and with c's first run
C13_Witness ==
    /\ pc = "done"
    /\ Len(SymOf(heap, "a")) >= 2
    /\ Len(SymOf(heap, "b")) = 1
    /\ Len(SymOf(heap, "c")) >= 2
    /\ SymOf(heap, "a")[Len(SymOf(heap, "a"))] = SymOf(heap, "b")[1]
    /\ SymOf(heap, "c")[1] = SymOf(heap, "b")[1]
    /\ Len(SymOf(heap, "l")) = 3

\* C14: a sum with an empty operand, on either side, renders as the other
\* operand and has its length; a.join(empty) returns a and changes nothing.
C14_EmptyIdentity ==
    [][/\ \A x \in Names, y \in Names, k \in Names :
             (AddOp(x, y, k) /\ len(heap, y) = 0) =>
                 /\ code(heap', k) = code(heap, x)
                 /\ len(heap', k) = len(heap, x)
       /\ \A x \in Names, y \in Names, k \in Names :
             (AddOp(x, y, k) /\ len(heap, x) = 0) =>
                 /\ code(heap', k) = code(heap, y)
                 /\ len(heap', k) = len(heap, y)
       /\ \A x \in Names, y \in Names, k \in Names :
             (JoinOp(x, y, k) /\ len(heap, y) = 0) =>
                 /\ join(heap, x, y).ret = x
                 /\ heap' = heap]_vars

\* an empty encoder plus one of several runs has just been assigned to the
\* other name
C14_Witness ==
    /\ last.op = "add"
    /\ last.br = "copy"
    /\ Len(SymOf(heap, last.arg)) >= 2
    /\ \E k \in Names : k # last.arg /\ View(heap, k) = View(heap, last.arg)

\* seq is a upper-case letters, then b lower-case letters or '*', then c
\* upper-case letters
UpperLowerUpper(seq, a, b, c) ==
    /\ Len(seq) = a + b + c
    /\ \A i \in 1..a : isupper(seq[i])
    /\ \A i \in (a + 1)..(a + b) : islower(seq[i]) \/ seq[i] = "*"
    /\ \A i \in (a + b + 1)..(a + b + c) : isupper(seq[i])

\* C15: an input of a >= 1 upper-case letters, b >= 1 lower-case letters or
\* '*' and c >= 1 upper-case letters converts to the runs aM bI cM;
\* "ACGTacgtACGT" converts to 4M4I4M.
C15_InternalInsertion ==
    pc = "done" =>
        /\ \A a \in 1..Len(alnseq), b \in 1..Len(alnseq), c \in 1..Len(alnseq) :
              UpperLowerUpper(alnseq, a, b, c) =>
                  /\ SymOf(heap, Tmp) = <<"M", "I", "M">>
                  /\ DupOf(heap, Tmp) = <<a, b, c>>
                  /\ code(heap, Tmp) = FormatInt(a) \o "M" \o FormatInt(b) \o "I"
                                       \o FormatInt(c) \o "M"
        /\ alnseq = Example2 => code(heap, Tmp) = "4M4I4M"

\* the conversion of an upper-case letter, '*', a lower-case letter and an
\* upper-case letter has returned
C15_Witness ==
    /\ pc = "done"
    /\ alnseq = <<"A", "*", "a", "A">>
    /\ code(heap, Tmp) = "1M2I1M"

\* the runs of a returned descriptor: S only first or last, I only between
\* two runs that are M or D
Placement(s) ==
    \A i \in 1..Len(s) :
        /\ s[i] = "S" => (i = 1 \/ i = Len(s))
        /\ s[i] = "I" => /\ 1 < i
                         /\ i < Len(s)
                         /\ s[i - 1] \in {"M", "D"}
                         /\ s[i + 1] \in {"M", "D"}

\* C19: in a returned descriptor a SoftClip run is the first or the last run
\* and an Insertion run has a Match or Deletion run on either side; during a
\* conversion marginal, once false, stays false.
C19_ClipInsertionPlacement ==
    [][/\ pc' = "done" => Placement(SymOf(heap', Tmp))
       /\ (pc = "loop" /\ ~marginal) => ~marginal']_vars

\* a conversion has returned a leading clip and an insertion between a match
\* and a deletion
C19_Witness ==
    /\ pc = "done"
    /\ SymOf(heap, Tmp) = <<"S", "M", "I", "D">>

Recognized(s) == isupper(s) \/ islower(s) \/ s = "*" \/ s = "-"

\* seq without its unrecognized characters
RECURSIVE Strip(_)
Strip(seq) ==
    IF seq = <<>> THEN <<>>
    ELSE (IF Recognized(Head(seq)) THEN <<Head(seq)>> ELSE <<>>) \o Strip(Tail(seq))

\* C20: the iteration for an unrecognized character changes neither the
\* descriptor nor marginal, and the conversion returns the descriptor it
\* returns for the input without its unrecognized characters.
C20_SkipTransparency ==
    [][/\ (ConvStep /\ ~Recognized(alnseq[pos])) =>
              /\ View(heap', Tmp) = View(heap, Tmp)
              /\ marginal' = marginal
       /\ pc' = "done" =>
              View(heap', Tmp) =
                  View(cigar_from_aligned_hmmalign(EmptyHeap, Strip(alnseq')), Tmp)]_vars

\* two upper-case letters separated by '.' have been converted to one run
C20_Witness ==
    /\ pc = "done"
    /\ alnseq = <<"A", ".", "A">>
    /\ code(heap, Tmp) = "2M"

\* C16: every run of every encoder of the pool has a count of at least one,
\* and an encoder has no runs exactly when its length is 0.
C16_RunWellFormedness ==
    \A x \in Names :
        /\ \A i \in 1..Len(DupOf(heap, x)) : DupOf(heap, x)[i] >= 1
        /\ Len(DupOf(heap, x)) = Len(SymOf(heap, x))
        /\ (SymOf(heap, x) = <<>>) <=> (len(heap, x) = 0)
        /\ (DupOf(heap, x) = <<>>) <=> (len(heap, x) = 0)

\* an encoder has just been cleared while the other one holds a run of count
\* two or more
C16_Witness ==
    /\ last.op = "clear"
    /\ View(heap, last.self) = <<<<>>, <<>>, 0>>
    /\ \E x \in Names, i \in 1..MaxTotal :
          i <= Len(DupOf(heap, x)) /\ DupOf(heap, x)[i] >= 2

\* the decimal numeral of a count below 100
Decimal(n) == IF n < 10 THEN Digit(n) ELSE Digit(n \div 10) \o Digit(n % 10)

\* the first n runs written one after the other as <count><tag>
RECURSIVE RunsText(_, _, _)
RunsText(d, s, n) ==
    IF n = 0 THEN "" ELSE RunsText(d, s, n - 1) \o Decimal(d[n]) \o s[n]

\* C17: repr leaves the encoder as it is; its text is the runs in order, each
\* as count then tag with nothing in between; the second repr gives the text
\* of the first.
C17_RenderPure ==
    [][RenderRepr =>
          /\ heap' = heap
          /\ stdout'[Len(stdout')] =
                 RunsText(DupOf(heap, "a"), SymOf(heap, "a"), Len(SymOf(heap, "a")))
          /\ pc = "once" => stdout'[2] = stdout[1]]_vars

\* an encoder with a run of ten has been printed twice
C17_Witness ==
    /\ pc = "twice"
    /\ stdout = <<"10M1D", "10M1D">>
    /\ View(heap, "a") = <<<<"M", "D">>, <<10, 1>>, 11>>

\* C18: x.join(x) on an encoder with at least one run leaves x with the runs,
\* the text and the length of x + x, and its length is the sum of its counts,
\* twice the length before.
C18_SelfConcatenation ==
    [][\A x \in Names :
          (SelfJoinOp(x) /\ len(heap, x) >= 1) =>
              LET R == add(heap, x, x)
              IN  /\ SymOf(heap', x) = SymOf(R.heap, Tmp)
                  /\ DupOf(heap', x) = DupOf(R.heap, Tmp)
                  /\ code(heap', x) = code(R.heap, Tmp)
                  /\ len(heap', x) = SumSeq(DupOf(heap', x))
                  /\ len(heap', x) = 2 * len(heap, x)]_vars

====
